---- MODULE Spec2Model ----
(***************************************************************************)
(* Model of the two services of otelgoexpert:                              *)
(*   servico-a (Gateway)  src/servico-a/cmd/server/main.go                 *)
(*   servico-b (Resolver) src/unnamed/part_000                             *)
(* Strings are sequences of bytes, float64 values are modelled bit-exactly *)
(* (53-bit significand, round to nearest even) on top of a small           *)
(* arbitrary-precision natural-number library, because TLC integers are    *)
(* 32 bits wide.                                                           *)
(***************************************************************************)
EXTENDS Integers, Sequences, FiniteSets, TLC

(***************************************************************************)
(* Arbitrary-precision naturals: little-endian sequences of limbs in base  *)
(* 2^15, without leading (most significant) zero limbs; <<>> is zero.      *)
(***************************************************************************)
Base == 2^15

Pow2(n) == 2^n

RECURSIVE BNorm(_)
BNorm(a) ==
    IF a = <<>> THEN <<>>
    ELSE IF a[Len(a)] = 0 THEN BNorm(SubSeq(a, 1, Len(a) - 1))
    ELSE a

BFromInt(n) ==
    IF n = 0 THEN <<>>
    ELSE IF n < Base THEN <<n>>
    ELSE IF n < Base * Base THEN <<n % Base, n \div Base>>
    ELSE <<n % Base, (n \div Base) % Base, n \div (Base * Base)>>

RECURSIVE BAddC(_, _, _)
BAddC(a, b, carry) ==
    IF a = <<>> /\ b = <<>> THEN (IF carry = 0 THEN <<>> ELSE <<carry>>)
    ELSE LET x == IF a = <<>> THEN 0 ELSE Head(a)
             y == IF b = <<>> THEN 0 ELSE Head(b)
             s == x + y + carry
             ra == IF a = <<>> THEN <<>> ELSE Tail(a)
             rb == IF b = <<>> THEN <<>> ELSE Tail(b)
         IN  <<s % Base>> \o BAddC(ra, rb, s \div Base)

BAdd(a, b) == BAddC(a, b, 0)

\* a - b for a >= b
RECURSIVE BSubC(_, _, _)
BSubC(a, b, borrow) ==
    IF a = <<>> THEN <<>>
    ELSE LET y == IF b = <<>> THEN 0 ELSE Head(b)
             d == Head(a) - y - borrow
             rb == IF b = <<>> THEN <<>> ELSE Tail(b)
         IN  IF d < 0 THEN <<d + Base>> \o BSubC(Tail(a), rb, 1)
             ELSE <<d>> \o BSubC(Tail(a), rb, 0)

BSub(a, b) == BNorm(BSubC(a, b, 0))

\* -1, 0 or 1 as a < b, a = b, a > b (both normalised)
RECURSIVE BCmpFrom(_, _, _)
BCmpFrom(a, b, i) ==
    IF i = 0 THEN 0
    ELSE IF a[i] < b[i] THEN -1
    ELSE IF a[i] > b[i] THEN 1
    ELSE BCmpFrom(a, b, i - 1)

BCmp(a, b) ==
    IF Len(a) < Len(b) THEN -1
    ELSE IF Len(a) > Len(b) THEN 1
    ELSE BCmpFrom(a, b, Len(a))

\* a * k for 0 <= k < Base
RECURSIVE BMulSmallC(_, _, _)
BMulSmallC(a, k, carry) ==
    IF a = <<>> THEN (IF carry = 0 THEN <<>> ELSE <<carry>>)
    ELSE LET p == Head(a) * k + carry
         IN  <<p % Base>> \o BMulSmallC(Tail(a), k, p \div Base)

BMulSmall(a, k) == BNorm(BMulSmallC(a, k, 0))

\* a * Base^n
RECURSIVE BShiftLimbs(_, _)
BShiftLimbs(a, n) ==
    IF a = <<>> \/ n = 0 THEN a ELSE <<0>> \o BShiftLimbs(a, n - 1)

RECURSIVE BMul(_, _)
BMul(a, b) ==
    IF a = <<>> \/ b = <<>> THEN <<>>
    ELSE BAdd(BMulSmall(a, Head(b)), BShiftLimbs(BMul(a, Tail(b)), 1))

\* floor(a / d) and a mod d for 0 < d < Base; the limbs are taken from the top
RECURSIVE BDivSmallFrom(_, _, _, _)
BDivSmallFrom(a, d, i, rem) ==
    IF i = 0 THEN [q |-> <<>>, r |-> rem]
    ELSE LET cur == rem * Base + a[i]
             rest == BDivSmallFrom(a, d, i - 1, cur % d)
         IN  [q |-> rest.q \o <<cur \div d>>, r |-> rest.r]

BDivSmall(a, d) ==
    LET res == BDivSmallFrom(a, d, Len(a), 0)
    IN  [q |-> BNorm(res.q), r |-> res.r]

\* a * 2^n
BShl(a, n) == BShiftLimbs(BMulSmall(a, Pow2(n % 15)), n \div 15)

\* floor(a / 2^n) and a mod 2^n
BDivPow2(a, n) ==
    LET k == n \div 15
        j == n % 15
        low == IF k >= Len(a) THEN a ELSE SubSeq(a, 1, k)
        high == IF k >= Len(a) THEN <<>> ELSE SubSeq(a, k + 1, Len(a))
        dv == BDivSmall(high, Pow2(j))
    IN  [q |-> dv.q,
         r |-> BNorm(BAdd(BNorm(low), BShiftLimbs(BFromInt(dv.r), k)))]

RECURSIVE IntBitLen(_)
IntBitLen(n) == IF n = 0 THEN 0 ELSE 1 + IntBitLen(n \div 2)

BBitLen(a) == IF a = <<>> THEN 0 ELSE 15 * (Len(a) - 1) + IntBitLen(a[Len(a)])

BIsOdd(a) == a # <<>> /\ a[1] % 2 = 1

(***************************************************************************)
(* float64.  A value is [sign, mant, exp] = (-1)^sign * mant * 2^exp; a    *)
(* float64 has mant of exactly MantBits bits (or is zero).  Exponent       *)
(* overflow and subnormals are outside the range the model feeds in.       *)
(***************************************************************************)
MantBits == 53

FZero == [sign |-> 0, mant |-> <<>>, exp |-> 0]

\* The float64 nearest to the exact value x, ties to even.
FRound(x) ==
    LET L == BBitLen(x.mant)
    IN  IF L = 0 THEN FZero
        ELSE IF L <= MantBits
        THEN [sign |-> x.sign, mant |-> BShl(x.mant, MantBits - L),
              exp |-> x.exp - (MantBits - L)]
        ELSE LET n == L - MantBits
                 dv == BDivPow2(x.mant, n)
                 c == BCmp(dv.r, BShl(<<1>>, n - 1))
                 up == c > 0 \/ (c = 0 /\ BIsOdd(dv.q))
                 q == IF up THEN BAdd(dv.q, <<1>>) ELSE dv.q
             IN  IF BBitLen(q) > MantBits
                 THEN [sign |-> x.sign, mant |-> BDivPow2(q, 1).q, exp |-> x.exp + n + 1]
                 ELSE [sign |-> x.sign, mant |-> q, exp |-> x.exp + n]

\* Exact product and exact sum of two values.
XMul(x, y) ==
    [sign |-> (x.sign + y.sign) % 2, mant |-> BMul(x.mant, y.mant), exp |-> x.exp + y.exp]

XAdd(x, y) ==
    LET e == IF x.exp < y.exp THEN x.exp ELSE y.exp
        mx == BShl(x.mant, x.exp - e)
        my == BShl(y.mant, y.exp - e)
        c == BCmp(mx, my)
    IN  IF x.sign = y.sign THEN [sign |-> x.sign, mant |-> BAdd(mx, my), exp |-> e]
        ELSE IF c = 0 THEN FZero
        ELSE IF c > 0 THEN [sign |-> x.sign, mant |-> BSub(mx, my), exp |-> e]
        ELSE [sign |-> y.sign, mant |-> BSub(my, mx), exp |-> e]

FMul(x, y) == FRound(XMul(x, y))
FAdd(x, y) == FRound(XAdd(x, y))
\* x*y+z with a single rounding (a fused multiply-add instruction)
FMA(x, y, z) == FRound(XAdd(XMul(x, y), z))

FFromInt(n) ==
    FRound([sign |-> IF n < 0 THEN 1 ELSE 0, mant |-> BFromInt(IF n < 0 THEN -n ELSE n),
            exp |-> 0])

\* The float64 nearest to the decimal num/den (den a power of ten below Base):
\* what strconv.ParseFloat yields for the decimal text, and what a Go
\* floating-point constant such as 1.8 is converted to.
ParseDecimal(num, den) ==
    LET a == IF num < 0 THEN -num ELSE num
        dv == BDivSmall(BShl(BFromInt(a), 75), den)
        sticky == IF dv.r = 0 THEN <<>> ELSE <<1>>
    IN  FRound([sign |-> IF num < 0 THEN 1 ELSE 0,
                mant |-> BAdd(BShl(dv.q, 1), sticky), exp |-> -76])

(***************************************************************************)
(* Strings are sequences of bytes.  `for _, char := range cep` walks the   *)
(* string rune by rune: Runes decodes UTF-8 the way the Go runtime does,   *)
(* an invalid byte giving U+FFFD and consuming one byte.                   *)
(***************************************************************************)
IsCont(b) == b >= 128 /\ b <= 191

RuneWidth(s) ==
    LET b == s[1]
        n == Len(s)
    IN  IF b < 128 THEN 1
        ELSE IF b >= 194 /\ b <= 223 /\ n >= 2 /\ IsCont(s[2]) THEN 2
        ELSE IF b >= 224 /\ b <= 239 /\ n >= 3 /\ IsCont(s[2]) /\ IsCont(s[3])
                /\ (b = 224 => s[2] >= 160) /\ (b = 237 => s[2] <= 159) THEN 3
        ELSE IF b >= 240 /\ b <= 244 /\ n >= 4 /\ IsCont(s[2]) /\ IsCont(s[3])
                /\ IsCont(s[4]) /\ (b = 240 => s[2] >= 144) /\ (b = 244 => s[2] <= 143)
             THEN 4
        ELSE 1

RuneValue(s, w) ==
    IF w = 1 THEN (IF s[1] < 128 THEN s[1] ELSE 65533)
    ELSE IF w = 2 THEN (s[1] - 192) * 64 + (s[2] - 128)
    ELSE IF w = 3 THEN (s[1] - 224) * 4096 + (s[2] - 128) * 64 + (s[3] - 128)
    ELSE (s[1] - 240) * 262144 + (s[2] - 128) * 4096 + (s[3] - 128) * 64 + (s[4] - 128)

RECURSIVE Runes(_)
Runes(s) ==
    IF s = <<>> THEN <<>>
    ELSE LET w == RuneWidth(s)
         IN  <<RuneValue(s, w)>> \o Runes(SubSeq(s, w + 1, Len(s)))

\* A mutation of validateCEP: the lower comparison off by one ('0' rejected).
validateCEPOffByOne(cep) ==
    IF Len(cep) # 8 THEN FALSE
    ELSE LET runes == Runes(cep)
         IN  \A i \in DOMAIN runes : ~(runes[i] <= 48 \/ runes[i] > 57)

\* servico-a: validateCEP.  len(cep) counts bytes, the loop compares runes.
validateCEP(cep) ==
    IF Len(cep) # 8 THEN FALSE
    ELSE LET runes == Runes(cep)
         IN  \A i \in DOMAIN runes : ~(runes[i] < 48 \/ runes[i] > 57)

\* servico-b: its own copy of validateCEP.
validateCEPB(cep) ==
    IF Len(cep) # 8 THEN FALSE
    ELSE LET runes == Runes(cep)
         IN  \A i \in DOMAIN runes : ~(runes[i] < 48 \/ runes[i] > 57)

(***************************************************************************)
(* Temperature conversion.  With fma the build fuses c*1.8 + 32 into one   *)
(* multiply-add (one rounding), as the Go specification allows and the     *)
(* compiler does on some architectures; without it the product and the sum *)
(* are rounded separately.                                                 *)
(***************************************************************************)
celsiusToFahrenheit(c, fused) ==
    IF fused THEN FMA(c, ParseDecimal(18, 10), FFromInt(32))
    ELSE FAdd(FMul(c, ParseDecimal(18, 10)), FFromInt(32))

celsiusToKelvin(c) == FAdd(c, FFromInt(273))

(***************************************************************************)
(* Bounds and input sets.                                                  *)
(***************************************************************************)
\* Trace identifiers the random generator of a tracer provider may draw.
NumTraceIds == 2
TraceIds == 1..NumTraceIds

\* Longest string handed to the validator on its own.
MaxStrLen == 9

Cep01310100 == <<48, 49, 51, 49, 48, 49, 48, 48>>
Cep99999999 == <<57, 57, 57, 57, 57, 57, 57, 57>>
Cep123 == <<49, 50, 51>>
CepHyphen == <<48, 49, 51, 49, 48, 45, 49, 48, 48>>

\* Request bodies a client posts to the Gateway: malformed JSON, or an object
\* whose cep field holds the string (absent field: the empty string).
Bodies ==
    {[ok |-> FALSE, cep |-> <<>>]}
    \cup {[ok |-> TRUE, cep |-> c] : c \in {<<>>, Cep123, CepHyphen, Cep01310100, Cep99999999}}

\* X-CEP header values a client posts to the Resolver directly.
HeaderCeps == {<<>>, Cep123, Cep01310100}

\* Values of WEATHER_API_KEY in the environment ("" is unset).
Keys == {"", "key"}

\* Outcomes of the GET to the directory API.
DirOutcomes ==
    {[kind |-> "transport", status |-> 0, read |-> FALSE, json |-> FALSE, erro |-> FALSE,
      localidade |-> ""],
     [kind |-> "http", status |-> 400, read |-> TRUE, json |-> FALSE, erro |-> FALSE,
      localidade |-> ""],
     [kind |-> "http", status |-> 200, read |-> FALSE, json |-> FALSE, erro |-> FALSE,
      localidade |-> ""],
     [kind |-> "http", status |-> 500, read |-> TRUE, json |-> FALSE, erro |-> FALSE,
      localidade |-> ""],
     [kind |-> "http", status |-> 200, read |-> TRUE, json |-> TRUE, erro |-> TRUE,
      localidade |-> ""],
     [kind |-> "http", status |-> 200, read |-> TRUE, json |-> TRUE, erro |-> FALSE,
      localidade |-> "Sao Paulo"]}

NoDirOutcome ==
    [kind |-> "none", status |-> 0, read |-> FALSE, json |-> FALSE, erro |-> FALSE,
     localidade |-> ""]

\* Celsius readings of the weather API, in tenths of a degree (the decimal
\* text of current.temp_c): 28.5, 25.0, 3.7, 0.0, -1.9.
Temps == {285, 250, 37, 0, -19}

\* Outcomes of the GET to the weather API.
WeatherOutcomes ==
    {[kind |-> "transport", status |-> 0, read |-> FALSE, json |-> FALSE, temp |-> 0],
     [kind |-> "http", status |-> 401, read |-> TRUE, json |-> TRUE, temp |-> 0],
     [kind |-> "http", status |-> 200, read |-> FALSE, json |-> FALSE, temp |-> 0],
     [kind |-> "http", status |-> 200, read |-> TRUE, json |-> FALSE, temp |-> 0]}
    \cup {[kind |-> "http", status |-> 200, read |-> TRUE, json |-> TRUE, temp |-> t] :
            t \in Temps}

NoWeatherOutcome ==
    [kind |-> "none", status |-> 0, read |-> FALSE, json |-> FALSE, temp |-> 0]

(***************************************************************************)
(* HTTP responses.  A body is plain text (http.Error), the JSON object     *)
(* {"error": msg}, or the JSON object of a temperature result.             *)
(***************************************************************************)
NoBody ==
    [kind |-> "none", msg |-> "", city |-> "", temp_C |-> FZero, temp_F |-> FZero,
     temp_K |-> FZero]

TextBody(m) == [NoBody EXCEPT !.kind = "text", !.msg = m]

ErrorBody(m) == [NoBody EXCEPT !.kind = "error", !.msg = m]

ResultBody(city, c, f, k) ==
    [kind |-> "result", msg |-> "", city |-> city, temp_C |-> c, temp_F |-> f, temp_K |-> k]

Response(status, body) == [status |-> status, body |-> body]

NoResp == Response(0, NoBody)

VARIABLES
    proc,   \* the two processes: main's position, tracing, signal, context
    gw,     \* the request the Gateway is handling (handleCEP)
    rs,     \* the request the Resolver is handling (handleTemperature)
    fma,    \* whether the Resolver's build fuses c*1.8 + 32
    vin,    \* a string handed to the validators on its own
    vout,   \* what the two validators answered for vin
    ip      \* one run of initProvider: position, attempt, seconds elapsed

vars == <<proc, gw, rs, fma, vin, vout, ip>>

Svc == {"a", "b"}

(***************************************************************************)
(* Gateway: handleCEP.                                                     *)
(***************************************************************************)
gwIdle ==
    [pc |-> "idle", bodyOk |-> FALSE, cep |-> <<>>, cancelled |-> FALSE, call |-> "none", calls |-> 0,
     traceId |-> 0, xcep |-> <<>>, traceparent |-> 0, upstream |-> NoResp, resp |-> NoResp]

InFlight(call) == call \in {"sent", "handling"}

\* A mutation: the request is forwarded whatever the validator says.
handleCEPStartNoValidation(body, tracing, tid, urlOk) ==
    LET g == [gwIdle EXCEPT !.bodyOk = body.ok, !.cep = body.cep,
                             !.traceId = IF tracing THEN tid ELSE 0]
    IN  IF ~body.ok
        THEN [g EXCEPT !.pc = "done", !.resp = Response(400, TextBody("invalid request body"))]
        ELSE [g EXCEPT !.pc = "calling", !.call = "sent", !.calls = 1,
                       !.xcep = body.cep, !.traceparent = g.traceId]

\* handleCEP from its entry to client.Do: decode, validate, build and send the
\* request to the Resolver.  tid is the identifier the tracer draws for a new
\* trace (the inbound context carries no span); with tracing off the global
\* tracer and propagator are no-ops: no span, no traceparent header.
handleCEPStart(body, tracing, tid, urlOk) ==
    LET g == [gwIdle EXCEPT !.bodyOk = body.ok, !.cep = body.cep,
                             !.traceId = IF tracing THEN tid ELSE 0]
    IN  IF ~body.ok
        THEN [g EXCEPT !.pc = "done", !.resp = Response(400, TextBody("invalid request body"))]
        ELSE IF ~validateCEP(body.cep)
        THEN [g EXCEPT !.pc = "done", !.resp = Response(422, ErrorBody("invalid zipcode"))]
        ELSE IF ~urlOk
        THEN [g EXCEPT !.pc = "done", !.resp = Response(500, TextBody("invalid URL"))]
        ELSE [g EXCEPT !.pc = "calling", !.call = "sent", !.calls = 1,
                       !.xcep = body.cep, !.traceparent = g.traceId]

\* client.Do returned an error: transport failure, the 10 s timeout, or the
\* request context cancelled (how names which).
handleCEPCallError(g, how) ==
    [g EXCEPT !.pc = "done", !.call = how,
              !.resp = Response(500, TextBody("call to servico-b failed"))]

\* A mutation: every Resolver error is reported as 500.
handleCEPFinishAs500(g, up, readOk) ==
    LET h == [g EXCEPT !.pc = "done", !.call = "returned",
                       !.upstream = IF readOk THEN up ELSE Response(up.status, NoBody)]
    IN  IF ~readOk THEN [h EXCEPT !.resp = Response(500, TextBody("read error"))]
        ELSE IF up.status # 200 THEN [h EXCEPT !.resp = Response(500, up.body)]
        ELSE IF up.body.kind \notin {"result", "error"}
        THEN [h EXCEPT !.resp = Response(500, TextBody("failed to decode response"))]
        ELSE [h EXCEPT !.resp = Response(200,
                 ResultBody(up.body.city, up.body.temp_C, up.body.temp_F, up.body.temp_K))]

\* handleCEP after client.Do returned the Resolver's response up: read the
\* body, relay a non-200 as it is, decode and re-encode a 200.  Unmarshal
\* accepts any JSON object (absent fields stay zero) and fails on other text.
\* upstream records resp.StatusCode and bodyBytes (no body when ReadAll failed).
handleCEPFinish(g, up, readOk) ==
    LET h == [g EXCEPT !.pc = "done", !.call = "returned",
                       !.upstream = IF readOk THEN up ELSE Response(up.status, NoBody)]
    IN  IF ~readOk THEN [h EXCEPT !.resp = Response(500, TextBody("read error"))]
        ELSE IF up.status # 200 THEN [h EXCEPT !.resp = Response(up.status, up.body)]
        ELSE IF up.body.kind \notin {"result", "error"}
        THEN [h EXCEPT !.resp = Response(500, TextBody("failed to decode response"))]
        ELSE [h EXCEPT !.resp = Response(200,
                 ResultBody(up.body.city, up.body.temp_C, up.body.temp_F, up.body.temp_K))]

(***************************************************************************)
(* Resolver: handleTemperature, searchCEP, getTemperature.                 *)
(***************************************************************************)
rsIdle ==
    [pc |-> "idle", origin |-> "none", cep |-> <<>>, traceparent |-> 0, traceId |-> 0,
     cancelled |-> FALSE, dirCalls |-> 0, weatherCalls |-> 0, dirOut |-> NoDirOutcome,
     key |-> "unread", weatherOut |-> NoWeatherOutcome, resp |-> NoResp]

\* handleTemperature from its entry to the http.Get of searchCEP.  The span
\* is started from r.Context(), into which nothing extracts the inbound
\* traceparent header: with tracing on the tracer draws a new trace
\* identifier tid, whatever tp the request carries.
handleTemperatureStart(cep, tp, origin, tracing, tid) ==
    LET r == [rsIdle EXCEPT !.origin = origin, !.cep = cep, !.traceparent = tp,
                            !.traceId = IF tracing THEN tid ELSE 0]
    IN  IF cep = <<>>
        THEN [r EXCEPT !.pc = "done",
                       !.resp = Response(400, ErrorBody("CEP header is required"))]
        ELSE IF ~validateCEPB(cep)
        THEN [r EXCEPT !.pc = "done", !.resp = Response(422, ErrorBody("invalid zipcode"))]
        ELSE [r EXCEPT !.pc = "directory", !.dirCalls = 1]

\* searchCEP once http.Get has returned out: the error text ("" for none)
\* and the locality.
searchCEP(out) ==
    IF out.kind = "transport" THEN [err |-> "transport error", localidade |-> ""]
    ELSE IF out.status = 400 THEN [err |-> "invalid zipcode", localidade |-> ""]
    ELSE IF ~out.read THEN [err |-> "read error", localidade |-> ""]
    ELSE IF ~out.json THEN [err |-> "decode error", localidade |-> ""]
    ELSE IF out.erro THEN [err |-> "can not find zipcode", localidade |-> ""]
    ELSE [err |-> "", localidade |-> out.localidade]

\* A mutation: the not-found error is not told apart from other failures.
handleTemperatureAfterSearchNo404(r, out, key) ==
    LET res == searchCEP(out)
        q == [r EXCEPT !.dirOut = out]
    IN  IF res.err = "invalid zipcode"
        THEN [q EXCEPT !.pc = "done", !.resp = Response(422, ErrorBody("invalid zipcode"))]
        ELSE IF res.err # ""
        THEN [q EXCEPT !.pc = "done", !.resp = Response(500, TextBody(res.err))]
        ELSE IF key = ""
        THEN [q EXCEPT !.pc = "done", !.key = key,
                       !.resp = Response(500, TextBody("WEATHER_API_KEY not set"))]
        ELSE [q EXCEPT !.pc = "weather", !.key = key, !.weatherCalls = @ + 1]

\* A mutation: getTemperature does not check the key before calling.
handleTemperatureAfterSearchNoKeyCheck(r, out, key) ==
    LET res == searchCEP(out)
        q == [r EXCEPT !.dirOut = out]
    IN  IF res.err = "invalid zipcode"
        THEN [q EXCEPT !.pc = "done", !.resp = Response(422, ErrorBody("invalid zipcode"))]
        ELSE IF res.err = "can not find zipcode"
        THEN [q EXCEPT !.pc = "done",
                       !.resp = Response(404, ErrorBody("can not find zipcode"))]
        ELSE IF res.err # ""
        THEN [q EXCEPT !.pc = "done", !.resp = Response(500, TextBody(res.err))]
        ELSE [q EXCEPT !.pc = "weather", !.key = key, !.weatherCalls = @ + 1]

\* A mutation: a failed directory call is issued again.
handleTemperatureAfterSearchRetry(r, out, key) ==
    LET res == searchCEP(out)
        q == [r EXCEPT !.dirOut = out]
    IN  IF res.err = "invalid zipcode"
        THEN [q EXCEPT !.pc = "done", !.resp = Response(422, ErrorBody("invalid zipcode"))]
        ELSE IF res.err = "can not find zipcode"
        THEN [q EXCEPT !.pc = "done",
                       !.resp = Response(404, ErrorBody("can not find zipcode"))]
        ELSE IF res.err = "transport error" /\ r.dirCalls < 2
        THEN [r EXCEPT !.dirCalls = @ + 1]
        ELSE IF res.err # ""
        THEN [q EXCEPT !.pc = "done", !.resp = Response(500, TextBody(res.err))]
        ELSE IF key = ""
        THEN [q EXCEPT !.pc = "done", !.key = key,
                       !.resp = Response(500, TextBody("WEATHER_API_KEY not set"))]
        ELSE [q EXCEPT !.pc = "weather", !.key = key, !.weatherCalls = @ + 1]

\* handleTemperature from the return of searchCEP's http.Get (with out) to
\* the http.Get of getTemperature: the error mapping, then getTemperature
\* reads WEATHER_API_KEY (key) and fails before any call when it is empty.
handleTemperatureAfterSearch(r, out, key) ==
    LET res == searchCEP(out)
        q == [r EXCEPT !.dirOut = out]
    IN  IF res.err = "invalid zipcode"
        THEN [q EXCEPT !.pc = "done", !.resp = Response(422, ErrorBody("invalid zipcode"))]
        ELSE IF res.err = "can not find zipcode"
        THEN [q EXCEPT !.pc = "done",
                       !.resp = Response(404, ErrorBody("can not find zipcode"))]
        ELSE IF res.err # ""
        THEN [q EXCEPT !.pc = "done", !.resp = Response(500, TextBody(res.err))]
        ELSE IF key = ""
        THEN [q EXCEPT !.pc = "done", !.key = key,
                       !.resp = Response(500, TextBody("WEATHER_API_KEY not set"))]
        ELSE [q EXCEPT !.pc = "weather", !.key = key, !.weatherCalls = @ + 1]

\* getTemperature once http.Get has returned out: the error text ("" for
\* none) and the Celsius value json.Unmarshal parsed from the decimal text.
getTemperature(out) ==
    IF out.kind = "transport" THEN [err |-> "transport error", tempC |-> FZero]
    ELSE IF out.status # 200 THEN [err |-> "weather API returned status", tempC |-> FZero]
    ELSE IF ~out.read THEN [err |-> "read error", tempC |-> FZero]
    ELSE IF ~out.json THEN [err |-> "decode error", tempC |-> FZero]
    ELSE [err |-> "", tempC |-> ParseDecimal(out.temp, 10)]

\* handleTemperature from the return of getTemperature's http.Get to the end.
handleTemperatureAfterWeather(r, out, fused) ==
    LET res == getTemperature(out)
        q == [r EXCEPT !.pc = "done", !.weatherOut = out]
    IN  IF res.err # "" THEN [q EXCEPT !.resp = Response(500, TextBody(res.err))]
        ELSE [q EXCEPT !.resp = Response(200,
                 ResultBody(r.dirOut.localidade, res.tempC,
                            celsiusToFahrenheit(res.tempC, fused),
                            celsiusToKelvin(res.tempC)))]

(***************************************************************************)
(* main of either service.                                                 *)
(***************************************************************************)
procStart ==
    [pc |-> "start", tracing |-> FALSE, listening |-> FALSE, sig |-> FALSE,
     shutdown |-> "none"]

procExited == [procStart EXCEPT !.pc = "exited"]

\* main from initProvider to the select: tracing is on when initProvider
\* succeeded (otherwise shutdown is a no-op and the global tracer and
\* propagator stay no-ops).  The listener goroutine is started, and has not
\* bound the port yet when main reaches the select.
mainStart(p, traceOk) ==
    [p EXCEPT !.pc = "serving", !.tracing = traceOk]

\* The listener goroutine: http.ListenAndServe binds the port and serves, or
\* fails, and log.Fatal ends the process without the deferred calls.
listenAndServe(p, listenOk) ==
    IF listenOk THEN [p EXCEPT !.listening = TRUE] ELSE procExited

\* The select returned and main returns: the deferred shutdown(ctx) is
\* invoked, with the listener goroutine still running (serving, or not
\* yet bound).  ctx is the
\* NotifyContext context, which the same interrupt cancels: ctxDone tells
\* whether its goroutine already did when shutdown(ctx) is entered (select
\* may have returned on sigCh first); it does so at the latest right after.
\* shutdown is tracerProvider.Shutdown when initProvider succeeded: once it
\* is entered the provider hands out no-op tracers, so requests served from
\* then on record no span.
mainShutdown(p, ctxDone) ==
    [p EXCEPT !.pc = "shutdown", !.tracing = FALSE,
              !.shutdown = IF ctxDone THEN "cancelled" ELSE "live"]

(***************************************************************************)
(* Strings handed to the validators on their own: n copies of a digit,     *)
(* with at most one position replaced by a non-digit byte sequence.        *)
(***************************************************************************)
Rep(d, n) == [i \in 1..n |-> d]

VDeviations == {<<47>>, <<58>>, <<45>>, <<32>>, <<97>>, <<255>>, <<195, 169>>}

VInputs ==
    {Rep(d, n) : d \in {48, 57}, n \in 0..MaxStrLen}
    \cup UNION {{SubSeq(Rep(d, n), 1, p - 1) \o ins \o SubSeq(Rep(d, n), p + 1, n) :
                    d \in {48, 57}, p \in 1..n, ins \in VDeviations} : n \in 1..MaxStrLen}

voutNone == [done |-> FALSE, a |-> FALSE, b |-> FALSE]

(***************************************************************************)
(* initProvider: the connection loop to the trace collector.  Time is in   *)
(* whole seconds.                                                          *)
(***************************************************************************)
maxRetries == 20

\* retryDelay, in seconds
retryDelay == 2

\* the context.WithTimeout of one grpc.DialContext, in seconds
dialTimeout == 5

ipStart == [pc |-> "resource", i |-> 0, fails |-> 0, elapsed |-> 0, err |-> ""]

\* A mutation: the delay is slept after the last failed attempt as well.
initProviderAttemptSleepsAlways(p, ok, d) ==
    LET q == [p EXCEPT !.elapsed = @ + d]
    IN  IF ok THEN [q EXCEPT !.pc = "exporter"]
        ELSE IF p.i < maxRetries - 1
        THEN [q EXCEPT !.i = @ + 1, !.fails = @ + 1, !.elapsed = @ + retryDelay]
        ELSE [q EXCEPT !.pc = "error", !.fails = @ + 1, !.elapsed = @ + retryDelay,
                       !.err = "dial"]

\* One iteration of the loop, attempt p.i.  grpc.DialContext with WithBlock
\* returns after d seconds, at the latest when its context times out; on
\* success the loop is left, on failure the delay is slept unless this was
\* the last attempt, which returns the error.
initProviderAttempt(p, ok, d) ==
    LET q == [p EXCEPT !.elapsed = @ + d]
    IN  IF ok THEN [q EXCEPT !.pc = "exporter"]
        ELSE IF p.i < maxRetries - 1
        THEN [q EXCEPT !.i = @ + 1, !.fails = @ + 1, !.elapsed = @ + retryDelay]
        ELSE [q EXCEPT !.pc = "error", !.fails = @ + 1, !.err = "dial"]

(***************************************************************************)
(* Initial state: both processes about to run main, no request.            *)
(***************************************************************************)
Init ==
    /\ proc = [s \in Svc |-> procStart]
    /\ gw = gwIdle
    /\ rs = rsIdle
    /\ fma \in BOOLEAN
    /\ vin = <<>>
    /\ vout = voutNone
    /\ ip = ipStart

(***************************************************************************)
(* Process steps.                                                          *)
(***************************************************************************)
MainStart(s) ==
    /\ proc[s].pc = "start"
    /\ \E traceOk \in BOOLEAN :
          proc' = [proc EXCEPT ![s] = mainStart(proc[s], traceOk)]
    /\ UNCHANGED <<gw, rs, fma, vin, vout, ip>>

\* The listener goroutine runs, concurrently with main: while main waits in
\* the select or is already in the deferred shutdown(ctx).
ListenAndServe(s) ==
    /\ proc[s].pc \in {"serving", "shutdown"}
    /\ ~proc[s].listening
    /\ \E listenOk \in BOOLEAN :
          proc' = [proc EXCEPT ![s] = listenAndServe(proc[s], listenOk)]
    /\ UNCHANGED <<gw, rs, fma, vin, vout, ip>>

\* An interrupt signal is delivered: a value is queued on sigCh and the
\* NotifyContext goroutine is woken to cancel ctx.
Interrupt(s) ==
    /\ proc[s].pc \in {"start", "serving"}
    /\ ~proc[s].sig
    /\ proc' = [proc EXCEPT ![s].sig = TRUE]
    /\ UNCHANGED <<gw, rs, fma, vin, vout, ip>>

\* select: sigCh holds a value, or ctx is done.
MainShutdown(s) ==
    /\ proc[s].pc = "serving"
    /\ proc[s].sig
    /\ \E ctxDone \in BOOLEAN : proc' = [proc EXCEPT ![s] = mainShutdown(proc[s], ctxDone)]
    /\ UNCHANGED <<gw, rs, fma, vin, vout, ip>>

\* shutdown returned, cancel() ran, main returned: the process is gone, and
\* with it the listener and the handlers still running.
Exit(s) ==
    /\ proc[s].pc = "shutdown"
    /\ proc' = [proc EXCEPT ![s] = procExited]
    /\ IF s = "a"
       THEN /\ gw' = IF gw.pc = "calling" THEN [gw EXCEPT !.pc = "dead", !.call = "aborted"]
                     ELSE gw
            /\ rs' = IF gw.call = "handling" /\ rs.pc \in {"directory", "weather"}
                     THEN [rs EXCEPT !.cancelled = TRUE] ELSE rs
       ELSE /\ rs' = IF rs.pc \in {"directory", "weather"} THEN [rs EXCEPT !.pc = "dead"]
                     ELSE rs
            /\ gw' = gw
    /\ UNCHANGED <<fma, vin, vout, ip>>

(***************************************************************************)
(* Request steps.  One client request is in the system at a time: requests *)
(* share no state.                                                         *)
(***************************************************************************)
Quiet == gw.pc \in {"idle", "done", "dead"} /\ rs.pc \in {"idle", "done", "dead"}

\* A client posts to the Gateway.
ClientRequest ==
    /\ proc["a"].listening
    /\ Quiet
    /\ \E body \in Bodies, tid \in TraceIds, urlOk \in BOOLEAN :
          gw' = handleCEPStart(body, proc["a"].tracing, tid, urlOk)
    /\ rs' = rsIdle
    /\ UNCHANGED <<proc, fma, vin, vout, ip>>

\* A client posts to the Resolver directly.
DirectRequest ==
    /\ proc["b"].listening
    /\ Quiet
    /\ \E cep \in HeaderCeps, tid \in TraceIds :
          rs' = handleTemperatureStart(cep, 0, "direct", proc["b"].tracing, tid)
    /\ gw' = gwIdle
    /\ UNCHANGED <<proc, fma, vin, vout, ip>>

\* The Gateway's request reaches the Resolver.
ResolverReceive ==
    /\ proc["b"].listening
    /\ gw.call = "sent"
    /\ \E tid \in TraceIds :
          rs' = handleTemperatureStart(gw.xcep, gw.traceparent, "gateway",
                                       proc["b"].tracing, tid)
    /\ gw' = [gw EXCEPT !.call = "handling"]
    /\ UNCHANGED <<proc, fma, vin, vout, ip>>

\* The directory API call returns.  It was made with http.Get, which is not
\* bound to the request context: it returns whether or not rs.cancelled.
DirectoryRespond ==
    /\ rs.pc = "directory"
    /\ \E out \in DirOutcomes, key \in Keys :
          rs' = handleTemperatureAfterSearch(rs, out, key)
    /\ UNCHANGED <<proc, gw, fma, vin, vout, ip>>

\* The weather API call returns (http.Get again).
WeatherRespond ==
    /\ rs.pc = "weather"
    /\ \E out \in WeatherOutcomes : rs' = handleTemperatureAfterWeather(rs, out, fma)
    /\ UNCHANGED <<proc, gw, fma, vin, vout, ip>>

\* client.Do returns the Resolver's response.  The request was built with
\* NewRequestWithContext(ctx): once ctx is cancelled it yields no response.
GatewayReceive ==
    /\ gw.call = "handling"
    /\ ~gw.cancelled
    /\ rs.pc = "done"
    /\ \E readOk \in BOOLEAN : gw' = handleCEPFinish(gw, rs.resp, readOk)
    /\ UNCHANGED <<proc, rs, fma, vin, vout, ip>>

\* client.Do fails: the Resolver is unreachable or gone, or the 10 s timeout
\* fired.  The connection is dropped, which cancels the Resolver's request
\* context.
GatewayCallFail ==
    /\ InFlight(gw.call)
    /\ gw' = handleCEPCallError(gw, "failed")
    /\ rs' = IF gw.call = "handling" /\ rs.pc \in {"directory", "weather"}
             THEN [rs EXCEPT !.cancelled = TRUE] ELSE rs
    /\ UNCHANGED <<proc, fma, vin, vout, ip>>

\* The client of the Gateway goes away: r.Context() is cancelled.
ClientCancel ==
    /\ gw.pc = "calling"
    /\ ~gw.cancelled
    /\ gw' = [gw EXCEPT !.cancelled = TRUE]
    /\ UNCHANGED <<proc, rs, fma, vin, vout, ip>>

\* client.Do returns the context's error: the call is aborted.
GatewayCallAbort ==
    /\ InFlight(gw.call)
    /\ gw.cancelled
    /\ gw' = handleCEPCallError(gw, "aborted")
    /\ rs' = IF gw.call = "handling" /\ rs.pc \in {"directory", "weather"}
             THEN [rs EXCEPT !.cancelled = TRUE] ELSE rs
    /\ UNCHANGED <<proc, fma, vin, vout, ip>>

\* The direct client of the Resolver goes away.
DirectCancel ==
    /\ rs.origin = "direct"
    /\ rs.pc \in {"directory", "weather"}
    /\ ~rs.cancelled
    /\ rs' = [rs EXCEPT !.cancelled = TRUE]
    /\ UNCHANGED <<proc, gw, fma, vin, vout, ip>>

Next ==
    \/ \E s \in Svc : MainStart(s)
    \/ \E s \in Svc : ListenAndServe(s)
    \/ \E s \in Svc : Interrupt(s)
    \/ \E s \in Svc : MainShutdown(s)
    \/ \E s \in Svc : Exit(s)
    \/ ClientRequest
    \/ DirectRequest
    \/ ResolverReceive
    \/ DirectoryRespond
    \/ WeatherRespond
    \/ GatewayReceive
    \/ GatewayCallFail
    \/ ClientCancel
    \/ GatewayCallAbort
    \/ DirectCancel

Spec == Init /\ [][Next]_vars

(***************************************************************************)
(* The validators on their own.                                            *)
(***************************************************************************)
VInit ==
    /\ proc = [s \in Svc |-> procStart]
    /\ gw = gwIdle
    /\ rs = rsIdle
    /\ fma = FALSE
    /\ vin \in VInputs
    /\ vout = voutNone
    /\ ip = ipStart

Validate ==
    /\ ~vout.done
    /\ vout' = [done |-> TRUE, a |-> validateCEP(vin), b |-> validateCEPB(vin)]
    /\ UNCHANGED <<proc, gw, rs, fma, vin, ip>>

VNext == Validate

SpecValidate == VInit /\ [][VNext]_vars

(***************************************************************************)
(* initProvider on its own.                                                *)
(***************************************************************************)
IPInit ==
    /\ proc = [s \in Svc |-> procStart]
    /\ gw = gwIdle
    /\ rs = rsIdle
    /\ fma = FALSE
    /\ vin = <<>>
    /\ vout = voutNone
    /\ ip = ipStart

\* resource.New
ResourceNew ==
    /\ ip.pc = "resource"
    /\ \E ok \in BOOLEAN :
          ip' = IF ok THEN [ip EXCEPT !.pc = "dial"]
                ELSE [ip EXCEPT !.pc = "error", !.err = "resource"]
    /\ UNCHANGED <<proc, gw, rs, fma, vin, vout>>

\* One connection attempt, and the delay after it.
DialAttempt ==
    /\ ip.pc = "dial"
    /\ \E ok \in BOOLEAN, d \in 0..dialTimeout : ip' = initProviderAttempt(ip, ok, d)
    /\ UNCHANGED <<proc, gw, rs, fma, vin, vout>>

\* otlptracegrpc.New, then the provider and the propagator are installed.
ExporterNew ==
    /\ ip.pc = "exporter"
    /\ \E ok \in BOOLEAN :
          ip' = IF ok THEN [ip EXCEPT !.pc = "ok"]
                ELSE [ip EXCEPT !.pc = "error", !.err = "exporter"]
    /\ UNCHANGED <<proc, gw, rs, fma, vin, vout>>

IPNext == ResourceNew \/ DialAttempt \/ ExporterNew

SpecInit == IPInit /\ [][IPNext]_vars

(***************************************************************************)
(* Properties.                                                             *)
(***************************************************************************)
\* Exactly 8 bytes, each an ASCII decimal digit.
IsEightDigits(str) == Len(str) = 8 /\ \A i \in 1..Len(str) : str[i] \in 48..57

\* C1: a Gateway request whose body decodes but whose cep is not exactly 8
\* decimal digits is answered 422 {"error":"invalid zipcode"}, and no request
\* to the Resolver is made for it.
C1_InvalidCepRejectedWithoutForwarding ==
    (gw.pc # "idle" /\ gw.bodyOk /\ ~IsEightDigits(gw.cep)) =>
        /\ gw.pc = "done"
        /\ gw.resp = Response(422, ErrorBody("invalid zipcode"))
        /\ gw.calls = 0
        /\ gw.call = "none"
        /\ rs.origin # "gateway"

C1_Witness ==
    gw.pc = "done" /\ gw.bodyOk /\ gw.cep = Cep123 /\ gw.resp.status = 422

\* C2: in handleTemperature, a directory answer of HTTP 400 gives 422
\* {"error":"invalid zipcode"}, a decoded payload with the error flag gives
\* 404 {"error":"can not find zipcode"}, a transport, read or decode failure
\* gives 500, and in each case no weather lookup is attempted.
C2_DirectoryErrorsMapped ==
    LET out == rs.dirOut
        invalid == out.kind = "http" /\ out.status = 400
        notFound == out.kind = "http" /\ out.status # 400 /\ out.read /\ out.json /\ out.erro
        failure == out.kind = "transport"
                   \/ (out.kind = "http" /\ out.status # 400 /\ (~out.read \/ ~out.json))
    IN  /\ invalid => rs.resp = Response(422, ErrorBody("invalid zipcode"))
        /\ notFound => rs.resp = Response(404, ErrorBody("can not find zipcode"))
        /\ failure => rs.resp.status = 500
        /\ (invalid \/ notFound \/ failure) =>
              rs.pc = "done" /\ rs.weatherCalls = 0 /\ rs.weatherOut = NoWeatherOutcome

C2_Witness ==
    rs.dirOut.kind = "http" /\ rs.dirOut.erro /\ rs.resp.status = 404 /\ rs.weatherCalls = 0

\* C3: a Resolver response with a status other than 200, once the Gateway
\* has read it, is the Gateway's response: same status, same body.
C3_NonOkRelayedUnchanged ==
    (gw.call = "returned" /\ rs.resp.status # 200 /\ gw.upstream.body.kind # "none") =>
        /\ gw.pc = "done"
        /\ gw.upstream = rs.resp
        /\ gw.resp = rs.resp

C3_Witness ==
    /\ gw.call = "returned"
    /\ rs.resp = Response(404, ErrorBody("can not find zipcode"))
    /\ gw.resp = rs.resp

\* C4: a Resolver 200 carries the directory's locality, the Celsius value c
\* of the weather lookup, c*1.8+32 and c+273, exactly: each number is the
\* float64 that the exact decimal value reads as (so that the JSON text,
\* the shortest decimal that reads back as the float64, is that decimal:
\* 83.3 and 301.5 for 28.5).
C4_ConversionExact ==
    rs.resp.status = 200 =>
        LET t == rs.weatherOut.temp
        IN  /\ rs.resp.body.city = rs.dirOut.localidade
            /\ rs.resp.body.temp_C = ParseDecimal(t, 10)
            /\ rs.resp.body.temp_F = ParseDecimal(18 * t + 3200, 100)
            /\ rs.resp.body.temp_K = ParseDecimal(t + 2730, 10)

\* C5: each copy of validateCEP answers true exactly for the strings of 8
\* bytes that are all decimal digits.
C5_ValidateIffEightDigits ==
    vout.done => (vout.a = IsEightDigits(vin) /\ vout.b = IsEightDigits(vin))

C5_Witness == vout.done /\ vin = Rep(48, 8) /\ vout.a /\ vout.b

\* C6: with WEATHER_API_KEY unset, a request that got through the header
\* check, the validation and the directory lookup is answered 500, and no
\* call to the weather API is made.
C6_MissingKeyFailsBeforeCall ==
    (rs.dirOut.kind # "none" /\ searchCEP(rs.dirOut).err = "" /\ rs.key # "key") =>
        /\ rs.key = ""
        /\ rs.pc = "done"
        /\ rs.resp.status = 500
        /\ rs.weatherCalls = 0
        /\ rs.weatherOut = NoWeatherOutcome

C6_Witness ==
    /\ rs.key = ""
    /\ rs.dirOut.localidade = "Sao Paulo"
    /\ rs.resp = Response(500, TextBody("WEATHER_API_KEY not set"))

\* C7: with tracing initialised in both services, the Resolver's spans for a
\* request the Gateway forwarded carry the trace identifier of the Gateway's
\* span for that request.
C7_TraceIdSurvivesHop ==
    (/\ proc["a"].tracing
     /\ proc["b"].tracing
     /\ rs.origin = "gateway"
     /\ gw.call \in {"handling", "returned"}) =>
        rs.traceId = gw.traceId

\* C8: once the context of an inbound request is cancelled while one of its
\* outbound calls is in flight, that call is aborted: it does not go on to
\* deliver the upstream's response.  For the Gateway's call to the Resolver and for the
\* Resolver's calls to the directory API and the weather API.
C8_CancellationAbortsOutboundCalls ==
    [][/\ (gw.cancelled /\ InFlight(gw.call)) => gw'.call # "returned"
       /\ (rs.cancelled /\ rs.pc = "directory") =>
             ~(rs'.dirOut.kind = "http" /\ rs'.dirOut.read)
       /\ (rs.cancelled /\ rs.pc = "weather") =>
             ~(rs'.weatherOut.kind = "http" /\ rs'.weatherOut.read)]_vars

\* C9: within one client request no upstream call is made more than once,
\* and a call whose outcome the handler has seen was made exactly once.
C9_EachUpstreamCallOnce ==
    /\ gw.calls <= 1
    /\ rs.dirCalls <= 1
    /\ rs.weatherCalls <= 1
    /\ gw.call # "none" => gw.calls = 1
    /\ rs.pc \in {"directory", "weather"} => rs.dirCalls = 1
    /\ rs.dirOut.kind # "none" => rs.dirCalls = 1
    /\ (rs.pc = "weather" \/ rs.weatherOut.kind # "none") => rs.weatherCalls = 1
    /\ rs.resp.status = 200 => (rs.dirCalls = 1 /\ rs.weatherCalls = 1)

C9_Witness ==
    /\ gw.resp.status = 200
    /\ rs.resp.status = 200
    /\ gw.calls = 1
    /\ rs.dirCalls = 1
    /\ rs.weatherCalls = 1

\* C10: on an interrupt the process first stops accepting requests, then
\* invokes the tracing shutdown with a context that is not cancelled, then
\* exits.
C10_ShutdownSequence ==
    \A s \in Svc :
        proc[s].shutdown # "none" => (~proc[s].listening /\ proc[s].shutdown = "live")

\* initProvider gave up after every connection attempt failed.
GaveUp == ip.pc = "error" /\ ip.err = "dial"

\* C11 as stated: when every connection attempt fails, the loop gives up
\* having blocked startup for at most 40 seconds (20 x 2 s).
C11_GivesUpWithin40Seconds ==
    GaveUp => ip.elapsed <= maxRetries * retryDelay

\* C11 as amended: when every connection attempt fails, the loop gives up
\* after maxRetries attempts having blocked startup for at most 138 seconds:
\* 20 connect timeouts of 5 s and the 19 delays of 2 s between attempts
\* (and at least for those 19 delays).
C11_GivesUpWithin138Seconds ==
    GaveUp =>
        /\ ip.fails = maxRetries
        /\ ip.elapsed <= maxRetries * dialTimeout + (maxRetries - 1) * retryDelay
        /\ ip.elapsed >= (maxRetries - 1) * retryDelay

C11_Witness ==
    GaveUp /\ ip.fails = 20 /\ ip.elapsed = 138
====
